---------------------------- MODULE Spec2Model ----------------------------
(***************************************************************************)
(* A model of jupyfmt: the cell pipeline of src/jupyfmt/formatters.py      *)
(* (get_formatter, format_code, the % and ! shielding) and the notebook    *)
(* and batch state machines of src/jupyfmt/main.py (format_file, main).    *)
(*                                                                         *)
(* A text is a sequence of one-character strings.  The only line           *)
(* terminator of the model's alphabet is "\n" and its only whitespace      *)
(* besides "\n" is " ".                                                    *)
(***************************************************************************)
EXTENDS Integers, Sequences, FiniteSets, TLC

VARIABLES
    \* ---- cell pipeline (formatters.py) ----
    ppc,            \* position of the pipeline run
    src,            \* orig_source handed to get_formatter / format_code
    exclude_nonkernel_languages,
    behaviour,      \* which external formatter behaviour is installed
    roundtrip,      \* unshield(shield(src))
    formatter,      \* what get_formatter(src, ...) returned or raised
    fmted1,         \* result of format_code(src, ...)
    fmted2,         \* result of format_code(fmted1.text, ...)
    \* ---- batch driver and notebook processor (main.py) ----
    pc,             \* position of main / format_file
    check, diff, compact_diff, assert_consistent_execution,
    taken,          \* files of files_to_format the loop has taken
    files_errored, files_changed, files_unchanged,
    exit_code,      \* the status handed to ctx.exit, -1 before
    nb,             \* the notebook format_file holds
    i,              \* index of the cell the loop is at (from 1)
    cells_errored, cells_changed, cells_unchanged,
    current_execution_count,
    written,        \* whether format_file wrote the notebook file
    \* ---- history, read by the properties only ----
    loaded,         \* whether format_file could read the notebook
    orig_nb,        \* the notebook as read
    outcome,        \* per cell: what the loop did with it
    seen            \* how many processed files ended errored / changed / unchanged

pipeVars == <<ppc, src, exclude_nonkernel_languages, behaviour, roundtrip,
              formatter, fmted1, fmted2>>

flagVars == <<check, diff, compact_diff, assert_consistent_execution>>

mainVars == <<taken, files_errored, files_changed, files_unchanged, exit_code,
              seen>>

fileVars == <<nb, i, cells_errored, cells_changed, cells_unchanged,
              current_execution_count, written, loaded, orig_nb, outcome>>

vars == <<pipeVars, pc, flagVars, mainVars, fileVars>>

-----------------------------------------------------------------------------
(* Bounds of the model. *)

\* a generated source text is a concatenation of at most MaxPieces pieces
MaxPieces == 3

\* a notebook has at most MaxCells cells
MaxCells == 2

\* a recorded execution count is at most MaxExecutionCount
MaxExecutionCount == 2

\* files_to_format holds at most MaxFiles files
MaxFiles == 2

-----------------------------------------------------------------------------
(* Texts. *)

Drop(s, n) == IF n >= Len(s) THEN <<>> ELSE SubSeq(s, n + 1, Len(s))

StartsWith(s, p) == Len(p) <= Len(s) /\ SubSeq(s, 1, Len(p)) = p

EndsWith(s, p) == Len(p) <= Len(s) /\ SubSeq(s, Len(s) - Len(p) + 1, Len(s)) = p

Contains(s, p) == \E k \in 0..(Len(s) - Len(p)) : SubSeq(s, k + 1, k + Len(p)) = p

NL == <<"\n">>

\* "#%#jupylint#"
PercentSentinel == <<"#", "%", "#", "j", "u", "p", "y", "l", "i", "n", "t", "#">>

\* "#!#jupylint#"
BangSentinel == <<"#", "!", "#", "j", "u", "p", "y", "l", "i", "n", "t", "#">>

\* re.sub("^" + pat, rep, s, flags=re.M), pat without a line terminator:
\* atStart says whether the head of s is at the start of a line.
RECURSIVE ReSubLine(_, _, _, _)
ReSubLine(s, pat, rep, atStart) ==
    IF s = <<>> THEN <<>>
    ELSE IF atStart /\ StartsWith(s, pat)
         THEN rep \o ReSubLine(Drop(s, Len(pat)), pat, rep, FALSE)
         ELSE <<Head(s)>> \o ReSubLine(Tail(s), pat, rep, Head(s) = "\n")

\* re.sub(pat, rep, s): leftmost non-overlapping occurrences anywhere
RECURSIVE ReSubAll(_, _, _)
ReSubAll(s, pat, rep) ==
    IF s = <<>> THEN <<>>
    ELSE IF StartsWith(s, pat)
         THEN rep \o ReSubAll(Drop(s, Len(pat)), pat, rep)
         ELSE <<Head(s)>> \o ReSubAll(Tail(s), pat, rep)

\* str.splitlines() for the line terminator "\n": no empty last line after
\* a final terminator, and no line at all for the empty string
RECURSIVE SplitLinesFrom(_, _)
SplitLinesFrom(s, cur) ==
    IF s = <<>> THEN (IF cur = <<>> THEN <<>> ELSE <<cur>>)
    ELSE IF Head(s) = "\n" THEN <<cur>> \o SplitLinesFrom(Tail(s), <<>>)
         ELSE SplitLinesFrom(Tail(s), Append(cur, Head(s)))

SplitLines(s) == SplitLinesFrom(s, <<>>)

\* every line followed by its terminator
RECURSIVE JoinLines(_)
JoinLines(ls) ==
    IF ls = <<>> THEN <<>> ELSE Head(ls) \o NL \o JoinLines(Tail(ls))

RECURSIVE LStrip(_)
LStrip(s) == IF s # <<>> /\ Head(s) \in {" ", "\n"} THEN LStrip(Tail(s)) ELSE s

RECURSIVE UpToSpace(_)
UpToSpace(s) ==
    IF s = <<>> \/ Head(s) \in {" ", "\n"} THEN <<>>
    ELSE <<Head(s)>> \o UpToSpace(Tail(s))

\* str.split(): the whitespace-delimited tokens; only the first is used
HasToken(line) == LStrip(line) # <<>>
FirstToken(line) == UpToSpace(LStrip(line))


-----------------------------------------------------------------------------
(* formatters.py: the directive shield. *)

\* lines 104-105: line-start % and ! become their sentinels
Shield(text) ==
    ReSubLine(ReSubLine(text, <<"%">>, PercentSentinel, TRUE),
              <<"!">>, BangSentinel, TRUE)

\* the same substitutions without re.M: only the start of the text matches
UnshieldFirstLine(text) ==
    LET a == IF StartsWith(text, PercentSentinel)
             THEN <<"%">> \o Drop(text, Len(PercentSentinel)) ELSE text
    IN  IF StartsWith(a, BangSentinel)
        THEN <<"!">> \o Drop(a, Len(BangSentinel)) ELSE a

\* lines 109-110: line-start sentinels become % and ! again
Unshield(text) ==
    ReSubLine(ReSubLine(text, PercentSentinel, <<"%">>, TRUE),
              BangSentinel, <<"!">>, TRUE)

\* lines 99-100: a non-empty source gets a final line terminator
PadNewline(text) == IF Len(text) > 0 THEN text \o NL ELSE text

\* a variant that leaves the final line terminator in place
StripNewlineKeep(text) == text

\* lines 113-114: one final line terminator is removed
StripNewline(text) ==
    IF EndsWith(text, NL) THEN SubSeq(text, 1, Len(text) - 1) ELSE text

-----------------------------------------------------------------------------
(* formatters.py: the language router. *)

SKIPPABLE_MAGIC_CODES ==
    { <<"b", "a", "s", "h">>,
      <<"h", "t", "m", "l">>,
      <<"j", "a", "v", "a", "s", "c", "r", "i", "p", "t">>,
      <<"j", "s">>,
      <<"l", "a", "t", "e", "x">>,
      <<"m", "a", "r", "k", "d", "o", "w", "n">>,
      <<"p", "e", "r", "l">>,
      <<"r", "u", "b", "y">>,
      <<"s", "h">>,
      <<"s", "v", "g">>,
      <<"w", "r", "i", "t", "e", "f", "i", "l", "e">> }

\* the keys of NONPYTHON_FORMATTERS = {"R": format_r}
NONPYTHON_FORMATTERS == { <<"R">> }

CellMagic(magic) == <<"%", "%">> \o magic

NonEmptyLines(source) == SelectSeq(SplitLines(source), LAMBDA line : line # <<>>)

\* skip_codes of get_formatter
SkipCodes(exclude) ==
    IF exclude THEN SKIPPABLE_MAGIC_CODES \cup NONPYTHON_FORMATTERS
    ELSE SKIPPABLE_MAGIC_CODES

\* the marker of a line with a token: split()[0][2:]
Marker(line) == Drop(FirstToken(line), 2)

\* get_formatter: "None", the name of a formatter, or the exception raised
get_formatter(source, exclude) ==
    IF Len(source) = 0 THEN "None"
    ELSE IF NonEmptyLines(source) = <<>> THEN "StopIteration"
    ELSE LET first_nonempty_line == Head(NonEmptyLines(source)) IN
         IF \E magic \in SkipCodes(exclude) :
               StartsWith(first_nonempty_line, CellMagic(magic))
         THEN "None"
         ELSE IF ~HasToken(first_nonempty_line) THEN "IndexError"
         ELSE IF Marker(first_nonempty_line) \in NONPYTHON_FORMATTERS
              THEN "format_r"
              ELSE "format_python"

Formatters == {"format_python", "format_r"}

-----------------------------------------------------------------------------
(* The external formatters (black, styler): pure functions of the text     *)
(* that may reject it.  Four idempotent behaviours stand for them.         *)

Behaviours == {"identity", "tidy", "minify", "oneline"}

IsComment(line) == StartsWith(line, <<"#">>)

RECURSIVE Dedent(_)
Dedent(line) == IF line # <<>> /\ Head(line) = " " THEN Dedent(Tail(line)) ELSE line

\* "#x" becomes "# x", as comment normalisation does
TidyLine(line) ==
    IF IsComment(line) /\ Len(line) > 1 /\ line[2] \notin {" ", "!", "#"}
    THEN <<"#", " ">> \o Tail(line)
    ELSE line

RECURSIVE DropLastEmpty(_)
DropLastEmpty(ls) ==
    IF ls # <<>> /\ ls[Len(ls)] = <<>>
    THEN DropLastEmpty(SubSeq(ls, 1, Len(ls) - 1))
    ELSE ls

\* every line terminator replaced by a space
RECURSIVE OneLine(_)
OneLine(text) ==
    IF text = <<>> THEN <<>>
    ELSE (IF Head(text) = "\n" THEN <<" ">> ELSE <<Head(text)>>) \o OneLine(Tail(text))

\* what the external formatter does with the text: [ok, text]
\*   identity: returns the text, as a formatter does with formatted code
\*   tidy:     rejects a code line holding "!", puts a space after a
\*             comment's "#", drops final blank lines, ends every line
\*   minify:   removes indentation and comment lines, ends every line
\*   oneline:  joins the lines with spaces
ExternalFormat(beh, text) ==
    LET ls == SplitLines(text) IN
    CASE beh = "identity" -> [ok |-> TRUE, text |-> text]
      [] beh = "tidy" ->
            IF \E k \in 1..Len(ls) : ~IsComment(ls[k]) /\ Contains(ls[k], <<"!">>)
            THEN [ok |-> FALSE, text |-> <<>>]
            ELSE [ok |-> TRUE,
                  text |-> JoinLines(DropLastEmpty([k \in 1..Len(ls) |-> TidyLine(ls[k])]))]
      [] beh = "minify" ->
            [ok |-> TRUE,
             text |-> JoinLines(SelectSeq([k \in 1..Len(ls) |-> Dedent(ls[k])],
                                          LAMBDA line : ~IsComment(line)))]
      [] beh = "oneline" -> [ok |-> TRUE, text |-> OneLine(text)]

\* format_python: black.format_str, InvalidInput becoming FormattingException
format_python(beh, orig_source) == ExternalFormat(beh, orig_source)

\* format_r: styler, then "# %#jupylint#" put back to "#%#jupylint#"
format_r(beh, orig_source) ==
    LET out == ExternalFormat(beh, orig_source) IN
    IF out.ok
    THEN [ok |-> TRUE,
          text |-> ReSubAll(out.text, <<"#", " ">> \o Tail(PercentSentinel),
                            PercentSentinel)]
    ELSE out

CallFormatter(name, beh, text) ==
    IF name = "format_r" THEN format_r(beh, text) ELSE format_python(beh, text)

-----------------------------------------------------------------------------
(* formatters.py: the cell formatter. *)

Result(status, text) == [status |-> status, text |-> text]

NoResult == Result("unset", <<>>)

\* format_code: status "ok" with the formatted text, "None", or the
\* exception that leaves it
format_code(orig_source, exclude, beh) ==
    LET fmt == get_formatter(orig_source, exclude) IN
    IF fmt \notin Formatters THEN Result(fmt, <<>>)
    ELSE LET out == CallFormatter(fmt, beh, Shield(PadNewline(orig_source))) IN
         IF ~out.ok THEN Result("FormattingException", <<>>)
         ELSE Result("ok", StripNewline(Unshield(out.text)))

-----------------------------------------------------------------------------
(* main.py: the notebook processor format_file and the batch driver main.  *)
(* A cell is [cell_type, source, execution_count]; execution_count 0       *)
(* stands for None.  black.format_str is one of the external behaviours.   *)

\* main.py keeps its own copy of the list
main_SKIPPABLE_MAGIC_CODES == SKIPPABLE_MAGIC_CODES

\* line 73: the skip test on the source itself
Skippable(orig_source) ==
    \E magic \in main_SKIPPABLE_MAGIC_CODES :
       StartsWith(orig_source, CellMagic(magic))

\* lines 78-84: what is handed to black
FormatInput(orig_source) == Shield(PadNewline(orig_source))

\* lines 99-100 and 119-121: the source of the rewritten cell
NewSource(fmted_source) == StripNewline(Unshield(fmted_source))

\* nbf.v4.new_code_cell(source)
new_code_cell(source) ==
    [cell_type |-> "code", source |-> source, execution_count |-> 0]

\* a variant that adds the new cell at the end
ReplaceCellAppend(cells, k, cell) == Append(cells, cell)

\* line 123: nb['cells'][i] = fmted_cell
ReplaceCell(cells, k, cell) == [cells EXCEPT ![k] = cell]

\* a variant of the write condition without the check flag
ShouldWriteIgnoringCheck(errored, chk, df, cdf) == errored = 0 /\ ~cdf /\ ~df

\* line 129: the condition of the write
ShouldWrite(errored, chk, df, cdf) == errored = 0 /\ ~chk /\ ~cdf /\ ~df

\* a variant that looks at the changed cells first
FileClassChangedFirst(errored, changed) ==
    IF changed > 0 THEN "changed"
    ELSE IF errored > 0 THEN "errored" ELSE "unchanged"

\* lines 291-296: the counter a returned triple goes to
FileClass(errored, changed) ==
    IF errored > 0 THEN "errored"
    ELSE IF changed > 0 THEN "changed" ELSE "unchanged"

\* a variant that sets the exit code in every mode
ExitCodeAlways(chk, errored, changed) ==
    IF errored > 0 THEN 2 ELSE IF changed > 0 THEN 1 ELSE 0

\* lines 308-314: the exit code, set in check mode only
ExitCode(chk, errored, changed) ==
    IF chk THEN (IF errored > 0 THEN 2 ELSE IF changed > 0 THEN 1 ELSE 0)
    ELSE 0

\* the notebooks a file may hold
CellSources ==
    { <<"%", "%", "b", "a", "s", "h">>,
      <<"%", "a", "\n", "a", "!">> }

\* lines 78-87: black.format_str on the padded, shielded source, under one
\* of the behaviours.  The results for the sources a file can hold are
\* tabulated once.
BlackTable ==
    [source \in CellSources, beh \in Behaviours |->
        ExternalFormat(beh, FormatInput(source))]

BlackFormat(source, beh) ==
    IF source \in CellSources THEN BlackTable[source, beh]
    ELSE ExternalFormat(beh, FormatInput(source))

Cells ==
    { [cell_type |-> "markdown", source |-> <<"a">>, execution_count |-> 0] }
    \cup [cell_type : {"code"}, source : CellSources,
          execution_count : 0..MaxExecutionCount]

Notebooks == UNION { [1..n -> Cells] : n \in 0..MaxCells }

\* History: how the processing of the current file ended, told from what
\* the loop did with each cell, and the tally of it over the files.
NoneSeen == [errored |-> 0, changed |-> 0, unchanged |-> 0]

HowEnded ==
    IF pc = "raised"
          \/ \E k \in 1..Len(outcome) : outcome[k] \in {"inconsistent", "invalid"}
    THEN "errored"
    ELSE IF \E k \in 1..Len(outcome) : outcome[k] = "changed"
         THEN "changed"
         ELSE "unchanged"

Seen(how) == [seen EXCEPT ![how] = @ + 1]

FileIdle ==
    /\ nb = <<>>
    /\ i = 0
    /\ cells_errored = 0
    /\ cells_changed = 0
    /\ cells_unchanged = 0
    /\ current_execution_count = 0
    /\ written = FALSE
    /\ loaded = FALSE
    /\ orig_nb = <<>>
    /\ outcome = <<>>

\* the locals of format_file after it returned or raised into main
DropLocals ==
    /\ nb' = <<>>
    /\ i' = 0
    /\ cells_errored' = 0
    /\ cells_changed' = 0
    /\ cells_unchanged' = 0
    /\ current_execution_count' = 0
    /\ written' = FALSE
    /\ loaded' = FALSE
    /\ orig_nb' = <<>>
    /\ outcome' = <<>>

MainIdle ==
    /\ pc = "off"
    /\ check = FALSE
    /\ diff = FALSE
    /\ compact_diff = FALSE
    /\ assert_consistent_execution = FALSE
    /\ taken = 0
    /\ files_errored = 0
    /\ files_changed = 0
    /\ files_unchanged = 0
    /\ exit_code = -1
    /\ seen = NoneSeen
    /\ FileIdle

PipeIdle ==
    /\ ppc = "off"
    /\ src = <<>>
    /\ exclude_nonkernel_languages = FALSE
    /\ behaviour = "unset"
    /\ roundtrip = <<>>
    /\ formatter = "unset"
    /\ fmted1 = NoResult
    /\ fmted2 = NoResult

\* main, lines 252-272: the options and the counters.  files_to_format
\* holds between 0 and MaxFiles files: each turn of the loop over it
\* either takes a file or finds no file left.
Init ==
    /\ PipeIdle
    /\ pc = "main"
    /\ check \in BOOLEAN
    /\ diff \in BOOLEAN
    /\ compact_diff \in BOOLEAN
    /\ assert_consistent_execution \in BOOLEAN
    /\ taken = 0
    /\ files_errored = 0
    /\ files_changed = 0
    /\ files_unchanged = 0
    /\ exit_code = -1
    /\ seen = NoneSeen
    /\ FileIdle

\* format_file, lines 43-50: the notebook is read, the counters start
ReadNotebook ==
    /\ pc = "main"
    /\ taken < MaxFiles
    /\ taken' = taken + 1
    /\ \E n \in Notebooks :
          /\ nb' = n
          /\ orig_nb' = n
          /\ outcome' = [k \in 1..Len(n) |-> "pending"]
    /\ i' = 1
    /\ cells_errored' = 0
    /\ cells_changed' = 0
    /\ cells_unchanged' = 0
    /\ current_execution_count' = 1
    /\ written' = FALSE
    /\ loaded' = TRUE
    /\ pc' = "cells"
    /\ UNCHANGED <<pipeVars, flagVars, files_errored, files_changed,
                   files_unchanged, exit_code, seen>>

\* format_file, lines 43-44: open or nbf.read raises
ReadRaises ==
    /\ pc = "main"
    /\ taken < MaxFiles
    /\ taken' = taken + 1
    /\ nb' = <<>>
    /\ orig_nb' = <<>>
    /\ outcome' = <<>>
    /\ i' = 0
    /\ cells_errored' = 0
    /\ cells_changed' = 0
    /\ cells_unchanged' = 0
    /\ current_execution_count' = 0
    /\ written' = FALSE
    /\ loaded' = FALSE
    /\ pc' = "raised"
    /\ UNCHANGED <<pipeVars, flagVars, files_errored, files_changed,
                   files_unchanged, exit_code, seen>>

AtCell == pc = "cells" /\ i <= Len(nb)

Inconsistent ==
    /\ assert_consistent_execution
    /\ nb[i].execution_count # current_execution_count

\* lines 52-53: a cell that is not code
NonCodeCell ==
    /\ AtCell
    /\ nb[i].cell_type # "code"
    /\ outcome' = [outcome EXCEPT ![i] = "non_code"]
    /\ i' = i + 1
    /\ UNCHANGED <<pipeVars, pc, flagVars, mainVars, nb, cells_errored,
                   cells_changed, cells_unchanged, current_execution_count,
                   written, loaded, orig_nb>>

\* lines 56-62: the execution count differs, check mode
InconsistentCounted ==
    /\ AtCell
    /\ nb[i].cell_type = "code"
    /\ Inconsistent
    /\ check
    /\ cells_errored' = cells_errored + 1
    /\ outcome' = [outcome EXCEPT ![i] = "inconsistent"]
    /\ i' = i + 1
    /\ UNCHANGED <<pipeVars, pc, flagVars, mainVars, nb, cells_changed,
                   cells_unchanged, current_execution_count, written, loaded,
                   orig_nb>>

\* lines 56-66: the execution count differs, apply mode
InconsistentRaised ==
    /\ AtCell
    /\ nb[i].cell_type = "code"
    /\ Inconsistent
    /\ ~check
    /\ outcome' = [outcome EXCEPT ![i] = "inconsistent"]
    /\ pc' = "raised"
    /\ UNCHANGED <<pipeVars, flagVars, mainVars, nb, i, cells_errored,
                   cells_changed, cells_unchanged, current_execution_count,
                   written, loaded, orig_nb>>

AtFormat ==
    /\ AtCell
    /\ nb[i].cell_type = "code"
    /\ ~Inconsistent

\* lines 67-74: a cell whose source starts with a skip tag
SkippedCell ==
    /\ AtFormat
    /\ Skippable(nb[i].source)
    /\ current_execution_count' = current_execution_count + 1
    /\ outcome' = [outcome EXCEPT ![i] = "skipped"]
    /\ i' = i + 1
    /\ UNCHANGED <<pipeVars, pc, flagVars, mainVars, nb, cells_errored,
                   cells_changed, cells_unchanged, written, loaded, orig_nb>>

\* lines 67-92: black rejects the cell, check mode
InvalidCounted ==
    /\ AtFormat
    /\ ~Skippable(nb[i].source)
    /\ check
    /\ \E beh \in Behaviours :
          ~BlackFormat(nb[i].source, beh).ok
    /\ current_execution_count' = current_execution_count + 1
    /\ cells_errored' = cells_errored + 1
    /\ outcome' = [outcome EXCEPT ![i] = "invalid"]
    /\ i' = i + 1
    /\ UNCHANGED <<pipeVars, pc, flagVars, mainVars, nb, cells_changed,
                   cells_unchanged, written, loaded, orig_nb>>

\* lines 67-96: black rejects the cell, apply mode
InvalidRaised ==
    /\ AtFormat
    /\ ~Skippable(nb[i].source)
    /\ ~check
    /\ \E beh \in Behaviours :
          ~BlackFormat(nb[i].source, beh).ok
    /\ current_execution_count' = current_execution_count + 1
    /\ outcome' = [outcome EXCEPT ![i] = "invalid"]
    /\ pc' = "raised"
    /\ UNCHANGED <<pipeVars, flagVars, mainVars, nb, i, cells_errored,
                   cells_changed, cells_unchanged, written, loaded, orig_nb>>

\* lines 67-125: black returns another text; the cell is replaced
ChangedCell ==
    /\ AtFormat
    /\ ~Skippable(nb[i].source)
    /\ \E beh \in Behaviours :
          LET out == BlackFormat(nb[i].source, beh) IN
             /\ out.ok
             /\ out.text # FormatInput(nb[i].source)
             /\ nb' = ReplaceCell(nb, i, new_code_cell(NewSource(out.text)))
    /\ current_execution_count' = current_execution_count + 1
    /\ cells_changed' = cells_changed + 1
    /\ outcome' = [outcome EXCEPT ![i] = "changed"]
    /\ i' = i + 1
    /\ UNCHANGED <<pipeVars, pc, flagVars, mainVars, cells_errored,
                   cells_unchanged, written, loaded, orig_nb>>

\* lines 67-98 and 126-127: black returns the text it was given
UnchangedCell ==
    /\ AtFormat
    /\ ~Skippable(nb[i].source)
    /\ \E beh \in Behaviours :
          LET out == BlackFormat(nb[i].source, beh) IN
             out.ok /\ out.text = FormatInput(nb[i].source)
    /\ current_execution_count' = current_execution_count + 1
    /\ cells_unchanged' = cells_unchanged + 1
    /\ outcome' = [outcome EXCEPT ![i] = "unchanged"]
    /\ i' = i + 1
    /\ UNCHANGED <<pipeVars, pc, flagVars, mainVars, nb, cells_errored,
                   cells_changed, written, loaded, orig_nb>>

\* lines 129-145: after the loop the file is written or not, the report is
\* printed and the triple returned
Persist ==
    /\ pc = "cells"
    /\ i > Len(nb)
    /\ written' = ShouldWrite(cells_errored, check, diff, compact_diff)
    /\ pc' = "returned"
    /\ UNCHANGED <<pipeVars, flagVars, mainVars, nb, i, cells_errored,
                   cells_changed, cells_unchanged, current_execution_count,
                   loaded, orig_nb, outcome>>

\* main, lines 275-296: the returned triple is counted; the locals of
\* format_file are gone
Aggregate ==
    /\ pc = "returned"
    /\ LET class == FileClass(cells_errored, cells_changed) IN
          /\ files_errored' = files_errored + (IF class = "errored" THEN 1 ELSE 0)
          /\ files_changed' = files_changed + (IF class = "changed" THEN 1 ELSE 0)
          /\ files_unchanged' =
                files_unchanged + (IF class = "unchanged" THEN 1 ELSE 0)
    /\ seen' = Seen(HowEnded)
    /\ pc' = "main"
    /\ DropLocals
    /\ UNCHANGED <<pipeVars, flagVars, taken, exit_code>>

\* main, lines 283-287: check mode counts a file whose processing raised
CatchRaised ==
    /\ pc = "raised"
    /\ check
    /\ files_errored' = files_errored + 1
    /\ seen' = Seen(HowEnded)
    /\ pc' = "main"
    /\ DropLocals
    /\ UNCHANGED <<pipeVars, flagVars, taken, files_changed, files_unchanged,
                   exit_code>>

\* main, lines 288-289: apply mode raises the exception again
Propagate ==
    /\ pc = "raised"
    /\ ~check
    /\ pc' = "crashed"
    /\ UNCHANGED <<pipeVars, flagVars, mainVars, fileVars>>

\* main, lines 298-316: the report and ctx.exit(exit_code)
Exit ==
    /\ pc = "main"
    /\ exit_code' = ExitCode(check, files_errored, files_changed)
    /\ pc' = "exited"
    /\ UNCHANGED <<pipeVars, flagVars, taken, files_errored, files_changed,
                   files_unchanged, seen, fileVars>>

Next ==
    \/ ReadNotebook
    \/ ReadRaises
    \/ NonCodeCell
    \/ InconsistentCounted
    \/ InconsistentRaised
    \/ SkippedCell
    \/ InvalidCounted
    \/ InvalidRaised
    \/ ChangedCell
    \/ UnchangedCell
    \/ Persist
    \/ Aggregate
    \/ CatchRaised
    \/ Propagate
    \/ Exit

Spec == Init /\ [][Next]_vars

-----------------------------------------------------------------------------
(* The pipeline specification: a source text is drawn, and the shield      *)
(* round trip, the router and the cell formatter (twice) are applied.      *)

Pieces ==
    { <<"%">>, <<"%", "%">>, <<"!">>, NL, <<" ">>, <<"a">>, <<"R">>,
      <<"b", "a", "s", "h">>, PercentSentinel, BangSentinel }

RECURSIVE TextsOf(_)
TextsOf(n) ==
    IF n = 0 THEN { <<>> }
    ELSE LET T == TextsOf(n - 1) IN T \cup { t \o p : t \in T, p \in Pieces }

PipeInit ==
    /\ ppc = "start"
    /\ src \in TextsOf(MaxPieces)
    /\ exclude_nonkernel_languages \in BOOLEAN
    /\ behaviour = "unset"
    /\ roundtrip = <<>>
    /\ formatter = "unset"
    /\ fmted1 = NoResult
    /\ fmted2 = NoResult
    /\ MainIdle

ShieldRoundTrip ==
    /\ ppc = "start"
    /\ roundtrip' = Unshield(Shield(src))
    /\ ppc' = "shielded"
    /\ UNCHANGED <<src, exclude_nonkernel_languages, behaviour, formatter,
                   fmted1, fmted2>>
    /\ UNCHANGED <<pc, flagVars, mainVars, fileVars>>

GetFormatter ==
    /\ ppc = "shielded"
    /\ formatter' = get_formatter(src, exclude_nonkernel_languages)
    /\ ppc' = "routed"
    /\ UNCHANGED <<src, exclude_nonkernel_languages, behaviour, roundtrip,
                   fmted1, fmted2>>
    /\ UNCHANGED <<pc, flagVars, mainVars, fileVars>>

FormatCode ==
    /\ ppc = "routed"
    /\ \E beh \in Behaviours :
          /\ behaviour' = beh
          /\ fmted1' = format_code(src, exclude_nonkernel_languages, beh)
    /\ ppc' = "formatted"
    /\ UNCHANGED <<src, exclude_nonkernel_languages, roundtrip, formatter,
                   fmted2>>
    /\ UNCHANGED <<pc, flagVars, mainVars, fileVars>>

\* the next run over the cell the first run produced
FormatCodeAgain ==
    /\ ppc = "formatted"
    /\ fmted1.status = "ok"
    /\ fmted2' = format_code(fmted1.text, exclude_nonkernel_languages, behaviour)
    /\ ppc' = "reformatted"
    /\ UNCHANGED <<src, exclude_nonkernel_languages, behaviour, roundtrip,
                   formatter, fmted1>>
    /\ UNCHANGED <<pc, flagVars, mainVars, fileVars>>

PipeNext == ShieldRoundTrip \/ GetFormatter \/ FormatCode \/ FormatCodeAgain

PipeSpec == PipeInit /\ [][PipeNext]_vars

-----------------------------------------------------------------------------
(* Properties of the cell pipeline, checked under PipeSpec. *)

NoSentinel(text) ==
    ~Contains(text, PercentSentinel) /\ ~Contains(text, BangSentinel)

\* C5: a text without a sentinel token is returned exactly by shielding and
\* then un-shielding it, whatever its lines start with.
C5_ShieldInverse ==
    (ppc # "start" /\ NoSentinel(src)) => roundtrip = src

\* a sentinel-free text of several lines that shielding changed
C5_Witness ==
    /\ ppc = "shielded"
    /\ NoSentinel(src)
    /\ Len(SplitLines(src)) >= 2
    /\ \E k \in 1..Len(SplitLines(src)) :
          \/ StartsWith(SplitLines(src)[k], <<"%", "%">>)
          \/ StartsWith(SplitLines(src)[k], <<"%", "!">>)
          \/ StartsWith(SplitLines(src)[k], <<"!", "%">>)
          \/ StartsWith(SplitLines(src)[k], <<"!", "!">>)
    /\ Shield(src) # src

\* the text the selected formatter returned in the first run
FirstOutput ==
    CallFormatter(formatter, behaviour, Shield(PadNewline(src))).text

NoMarkerLine(text) ==
    \A k \in 1..Len(SplitLines(text)) :
       /\ ~StartsWith(SplitLines(text)[k], <<"%">>)
       /\ ~StartsWith(SplitLines(text)[k], <<"!">>)

C7_Assumptions ==
    /\ CallFormatter(formatter, behaviour, FirstOutput) =
          [ok |-> TRUE, text |-> FirstOutput]
    /\ EndsWith(FirstOutput, NL)
    /\ NoMarkerLine(FirstOutput)
    /\ get_formatter(fmted1.text, exclude_nonkernel_languages) = formatter

C9_Routing ==
    (ppc = "routed" /\ formatter \in Formatters) =>
       (formatter = "format_r" <=>
          \E tag \in NONPYTHON_FORMATTERS :
             FirstToken(Head(NonEmptyLines(src))) = CellMagic(tag))

\* C10: get_formatter returns None or a formatter for every source, and
\* format_code raises nothing but FormattingException.
C10_Total ==
    /\ ppc = "routed" => formatter \in Formatters \cup {"None"}
    /\ ppc = "formatted" =>
          fmted1.status \in {"ok", "None", "FormattingException"}

-----------------------------------------------------------------------------
(* Properties of format_file and main, checked under Spec. *)

\* format_file has returned or raised and main has not gone on yet
FileEnded == pc \in {"returned", "raised"}

NoCellErrored ==
    \A k \in 1..Len(outcome) : outcome[k] \notin {"inconsistent", "invalid"}

CodeCells(cells) == { k \in 1..Len(cells) : cells[k].cell_type = "code" }

\* C1 as stated: a notebook that was read is written back exactly when no
\* code cell errored and neither diff mode is set.
C1_Original ==
    (FileEnded /\ loaded) =>
       (written <=> (NoCellErrored /\ ~diff /\ ~compact_diff))

\* C1 amended: a notebook that was read is written back exactly when no
\* code cell errored and none of check, diff and compact_diff is set.
C1_WriteRule ==
    (FileEnded /\ loaded) =>
       (written <=> (NoCellErrored /\ ~check /\ ~diff /\ ~compact_diff))

\* a notebook with a rewritten cell was written back
C1_Witness ==
    /\ pc = "returned"
    /\ written
    /\ \E k \in 1..Len(outcome) : outcome[k] = "changed"

ExpectedExit ==
    IF seen.errored > 0 THEN 2 ELSE IF seen.changed > 0 THEN 1 ELSE 0

\* C2: in check mode main never lets an exception out and can always go on
\* until it exits; every processed file is counted in exactly one of the
\* three file counters, errored before changed before unchanged; and the
\* exit code is 2 with an errored file, else 1 with a changed file, else 0.
C2_CheckExit ==
    check =>
       /\ pc # "crashed"
       /\ pc = "exited" \/ ENABLED Next
       /\ pc \in {"main", "exited"} =>
             /\ files_errored = seen.errored
             /\ files_changed = seen.changed
             /\ files_unchanged = seen.unchanged
             /\ files_errored + files_changed + files_unchanged = taken
       /\ pc = "exited" => exit_code = ExpectedExit

\* a check run over an errored file and a changed file has exited
C2_Witness ==
    /\ check
    /\ pc = "exited"
    /\ seen.errored > 0
    /\ seen.changed > 0
    /\ exit_code = 2

\* C3 as stated: outside check mode a completed run exits with 1 when a
\* file was changed and with 0 only when none was.
C3_Original ==
    (pc = "exited" /\ ~check) =>
       exit_code = (IF seen.changed > 0 THEN 1 ELSE 0)

\* C3 amended: outside check mode a completed run exits with 0, whether or
\* not a file was changed.
C3_ApplyExit ==
    (pc = "exited" /\ ~check) => exit_code = 0

\* an apply run that rewrote a file has exited
C3_Witness ==
    /\ pc = "exited"
    /\ ~check /\ ~diff /\ ~compact_diff
    /\ seen.changed > 0
    /\ exit_code = 0

\* C4: the notebook format_file holds has the cells of the notebook read,
\* in number and order; a cell that is not code is the cell read, and a
\* cell differs from the cell read only if it was counted as changed.
C4_CellsPreserved ==
    loaded =>
       /\ Len(nb) = Len(orig_nb)
       /\ \A k \in 1..Len(orig_nb) :
             /\ k <= Len(nb) => nb[k].cell_type = orig_nb[k].cell_type
             /\ (k <= Len(nb) /\ orig_nb[k].cell_type # "code") =>
                   nb[k] = orig_nb[k]
             /\ (k <= Len(nb) /\ nb[k] # orig_nb[k]) => outcome[k] = "changed"
       /\ cells_changed = Cardinality({ k \in 1..Len(outcome) : outcome[k] = "changed" })

\* the loop has ended over a notebook with a rewritten code cell and a
\* cell that is not code
C4_Witness ==
    /\ pc = "returned"
    /\ \E k \in 1..Len(nb) : outcome[k] = "changed" /\ nb[k] # orig_nb[k]
    /\ \E k \in 1..Len(nb) : orig_nb[k].cell_type = "markdown"

SkipTagged(source) ==
    /\ NonEmptyLines(source) # <<>>
    /\ \E magic \in SKIPPABLE_MAGIC_CODES :
          StartsWith(Head(NonEmptyLines(source)), CellMagic(magic))

\* C6: once the loop has ended, a code cell whose first non-blank line
\* begins with a skip tag was not handed to a formatter, is the cell read,
\* and is counted as unchanged: the three cell counters add up to the
\* number of code cells.
C6_SkipCounted ==
    pc = "returned" =>
       /\ \A k \in CodeCells(orig_nb) :
             SkipTagged(orig_nb[k].source) =>
                /\ outcome[k] \notin {"invalid", "changed", "unchanged"}
                /\ nb[k] = orig_nb[k]
       /\ cells_errored + cells_changed + cells_unchanged =
             Cardinality(CodeCells(orig_nb))

\* C8: with the consistency check on, the expected execution count is one
\* more than the number of code cells the loop has passed, so the k-th
\* code cell is compared against k.
C8_CounterAdvances ==
    (pc = "cells" /\ assert_consistent_execution) =>
       current_execution_count =
          1 + Cardinality({ k \in CodeCells(orig_nb) : k < i })

=============================================================================
